---------------------------- MODULE Spec2Model ----------------------------
(***************************************************************************)
(* Model of the Redmine integration for Home Assistant:                    *)
(*   - the Transport Adapter, RedmineClient (custom_components/redmine/    *)
(*     api.py): validate_connection and create_issue, with the aiohttp     *)
(*     replies and exceptions they react to;                               *)
(*   - the URL normalisation of the first setup step (config_flow.py)      *)
(*     and of RedmineClient.__init__;                                      *)
(*   - the Setup Negotiator, RedmineConfigFlow (config_flow.py), two       *)
(*     setup runs interleaved at their await points, and one run against   *)
(*     every shape of the reference lists;                                 *)
(*   - the service path (__init__.py): async_setup_entry,                  *)
(*     async_unload_entry and the handler of redmine.create_issue;         *)
(*   - one host with a setup run and an installation side by side.         *)
(*                                                                         *)
(* Text is a sequence of one-character strings where the code inspects     *)
(* characters (URLs), and a sequence of chunks where it only concatenates  *)
(* (exception messages).  JSON values are tagged records.                  *)
(***************************************************************************)
EXTENDS Integers, Sequences, FiniteSets, TLC

VARIABLES
    api_pc,        \* caller -> where its adapter call is suspended ("idle" between calls)
    api_op,        \* caller -> the adapter operation it called ("none" between calls)
    api_args,      \* caller -> the arguments it was called with
    api_request,   \* caller -> the HTTP request that call issued
    api_reply,     \* caller -> what the HTTP session did with it
    api_result,    \* caller -> what the call returned or raised
    url_raw,       \* a raw redmine_url typed into the step-1 form
    url_norm,      \* its normalisation by async_step_user
    url_base,      \* RedmineClient._base_url built from url_norm
    url_request,   \* a request URL built from url_base
    url_pc,        \* position of the setup run that carries it
    url_stored,    \* self._redmine_url of that run
    url_session,   \* the kind of HTTP session the run's client was given
    url_persisted, \* the redmine_url of the entry setup persisted for it
    url_setup,     \* RedmineClient._base_url built by async_setup_entry
    flow,          \* the setup runs in progress: run id -> RedmineConfigFlow state
    entries,       \* the host's persisted config entries, in creation order
    hass_data,     \* hass.data[DOMAIN]: the loaded installations, in load order
    services,      \* the host's service registry entry for redmine.create_issue
    svc            \* the create_issue service invocation in progress

api_vars == <<api_pc, api_op, api_args, api_request, api_reply, api_result>>
url_vars == <<url_raw, url_norm, url_base, url_request, url_pc, url_stored,
              url_session, url_persisted, url_setup>>
flow_vars == <<flow, entries>>
svc_vars == <<hass_data, services, svc>>
vars == <<api_vars, url_vars, flow_vars, svc_vars>>

None == [t |-> "null"]

-----------------------------------------------------------------------------
(* Bounds of the model. *)

\* longest errors list a 422 body carries
MaxErrors == 2
\* longest host part of a raw URL (characters after the optional scheme)
MaxBody == 3

-----------------------------------------------------------------------------
(* JSON values, as response.json() decodes them. *)

JNull == [t |-> "null"]
JStr(s) == [t |-> "str", v |-> s]
JInt(n) == [t |-> "int", v |-> n]
JList(q) == [t |-> "list", v |-> q]
JDict(f) == [t |-> "dict", v |-> f]
EmptyDict == JDict(<<>>)

\* dict.get(key, default); on a value that is no dict Python raises
\* AttributeError, which the callers test with IsDict first.
IsDict(j) == j.t = "dict"
DictGet(j, key, default) == IF key \in DOMAIN j.v THEN j.v[key] ELSE default


-----------------------------------------------------------------------------
(* What the aiohttp session does with one request: it hands back a         *)
(* response (a status, a reason phrase and a body) or raises.               *)

\* The statuses a response can carry once redirects have been followed.
Statuses == {200, 201, 304, 401, 403, 422, 500}

\* The strings a 422 body lists under "errors".
ErrStrings == {"Project is invalid", "Subject is too short"}

RECURSIVE SeqsUpTo(_, _)
SeqsUpTo(S, n) ==
    IF n = 0 THEN {<<>>}
    ELSE LET shorter == SeqsUpTo(S, n - 1)
         IN  shorter \cup {Append(q, x) : q \in {r \in shorter : Len(r) = n - 1}, x \in S}

\* A body is what response.json() will meet: a JSON document under a JSON
\* content type ("json"), a document under another content type ("html"),
\* or text that is no JSON ("malformed").
Body(form, json) == [form |-> form, json |-> json]

JsonDocs ==
    {JDict([user |-> JDict([login |-> JStr("admin")])]),
     JDict([user |-> JNull]),
     JDict([issue |-> JDict([id |-> JInt(123)])]),
     EmptyDict,
     JList(<<>>),
     JNull}
    \cup {JDict([errors |-> JList(q)]) : q \in SeqsUpTo(ErrStrings, MaxErrors)}

Bodies ==
    {Body("json", j) : j \in JsonDocs}
    \cup {Body("html", JNull), Body("malformed", JNull)}

Response(status, body) ==
    [kind |-> "response", status |-> status, body |-> body,
     exc |-> "", text |-> <<"reason">>]

SessionRaises(exc, status, text) ==
    [kind |-> "raise", status |-> status, body |-> Body("none", JNull),
     exc |-> exc, text |-> <<text>>]

\* The exceptions session.get / session.post raise: a TLS failure, a DNS or
\* refused connection, a reset, a socket read timeout, the expiry of the
\* total timeout (asyncio.TimeoutError), and too many redirects.
TransportFailures ==
    {SessionRaises("ClientSSLError", 0, "certificate verify failed"),
     SessionRaises("ClientConnectorError", 0, "cannot connect to host"),
     SessionRaises("ClientOSError", 0, "connection reset by peer"),
     SessionRaises("ServerTimeoutError", 0, "timeout on reading data"),
     SessionRaises("TimeoutError", 0, ""),
     SessionRaises("TooManyRedirects", 302, "too many redirects")}

NoReply ==
    [kind |-> "none", status |-> 0, body |-> Body("none", JNull),
     exc |-> "", text |-> <<>>]

Replies == {Response(s, b) : s \in Statuses, b \in Bodies} \cup TransportFailures

\* The classes an exception is an instance of (isinstance / except matching).
Ancestors(exc) ==
    CASE exc = "RedmineApiError" -> {"RedmineApiError", "Exception"}
      [] exc = "RedmineAuthError" -> {"RedmineAuthError", "RedmineApiError", "Exception"}
      [] exc = "RedmineConnectionError" ->
            {"RedmineConnectionError", "RedmineApiError", "Exception"}
      [] exc = "ClientSSLError" ->
            {"ClientSSLError", "ClientConnectorError", "ClientOSError",
             "ClientConnectionError", "ClientError", "Exception"}
      [] exc = "ClientConnectorError" ->
            {"ClientConnectorError", "ClientOSError", "ClientConnectionError",
             "ClientError", "Exception"}
      [] exc = "ClientOSError" ->
            {"ClientOSError", "ClientConnectionError", "ClientError", "Exception"}
      [] exc = "ServerTimeoutError" ->
            {"ServerTimeoutError", "ServerConnectionError", "ClientConnectionError",
             "ClientError", "TimeoutError", "Exception"}
      [] exc = "TimeoutError" -> {"TimeoutError", "Exception"}
      [] exc = "ClientResponseError" -> {"ClientResponseError", "ClientError", "Exception"}
      [] exc = "ContentTypeError" ->
            {"ContentTypeError", "ClientResponseError", "ClientError", "Exception"}
      [] exc = "TooManyRedirects" ->
            {"TooManyRedirects", "ClientResponseError", "ClientError", "Exception"}
      [] exc = "JSONDecodeError" -> {"JSONDecodeError", "ValueError", "Exception"}
      [] exc = "AttributeError" -> {"AttributeError", "Exception"}
      [] OTHER -> {"Exception"}

\* The outcome of a call or of a block: a returned value or a raised exception.
Return(value) ==
    [raised |-> FALSE, exc |-> "", status |-> 0, msg |-> <<>>, value |-> value]
Raise(exc, status, msg) ==
    [raised |-> TRUE, exc |-> exc, status |-> status, msg |-> msg, value |-> JNull]

IsInstance(outcome, cls) == outcome.raised /\ cls \in Ancestors(outcome.exc)

\* response.raise_for_status(): raises ClientResponseError unless 400 > status.
raise_for_status(reply) == reply.status >= 400

\* await response.json(): ContentTypeError (a ClientResponseError carrying the
\* response's status) on a non-JSON content type, JSONDecodeError on text that
\* does not parse, the decoded document otherwise.
response_json(reply) ==
    CASE reply.body.form = "html" ->
            Raise("ContentTypeError", reply.status, <<"unexpected mimetype">>)
      [] reply.body.form = "malformed" ->
            Raise("JSONDecodeError", 0, <<"Expecting value">>)
      [] OTHER -> Return(reply.body.json)

-----------------------------------------------------------------------------
(* Text that the code inspects character by character. *)

SLASH == "/"
HTTP == <<"h", "t", "t", "p", ":", "/", "/">>
HTTPS == <<"h", "t", "t", "p", "s", ":", "/", "/">>
USERS_CURRENT == <<"/", "u", "s", "e", "r", "s", "/", "c", "u", "r", "r", "e", "n", "t",
                   ".", "j", "s", "o", "n">>
ISSUES == <<"/", "i", "s", "s", "u", "e", "s", ".", "j", "s", "o", "n">>

\* str.startswith(prefix)
StartsWith(s, prefix) ==
    Len(s) >= Len(prefix) /\ SubSeq(s, 1, Len(prefix)) = prefix

\* str.rstrip("/"): drops every trailing slash.
RECURSIVE Rstrip(_)
Rstrip(s) ==
    IF s # <<>> /\ s[Len(s)] = SLASH THEN Rstrip(SubSeq(s, 1, Len(s) - 1)) ELSE s

-----------------------------------------------------------------------------
(* The Transport Adapter: RedmineClient. *)

\* RedmineClient.__init__
RedmineClient(redmine_url, api_key) ==
    [base_url |-> Rstrip(redmine_url), api_key |-> api_key]

\* RedmineClient._headers
Headers(client) ==
    [key |-> client.api_key, content_type |-> "application/json"]

NoRequest ==
    [method |-> "", url |-> <<>>, headers |-> [key |-> "", content_type |-> ""],
     json |-> JNull, timeout |-> 0, ssl |-> FALSE]

\* The GET validate_connection issues.
ValidateRequest(client) ==
    [method |-> "GET", url |-> client.base_url \o USERS_CURRENT,
     headers |-> Headers(client), json |-> JNull, timeout |-> 10, ssl |-> FALSE]

\* The body of validate_connection's try block.
ValidateTry(reply) ==
    IF reply.kind = "raise" THEN Raise(reply.exc, reply.status, reply.text)
    ELSE IF reply.status = 401 THEN Raise("RedmineAuthError", 0, <<"Invalid API key">>)
    ELSE IF raise_for_status(reply)
         THEN Raise("ClientResponseError", reply.status, reply.text)
    ELSE LET data == response_json(reply) IN
         IF data.raised THEN data
         ELSE IF ~IsDict(data.value)
              THEN Raise("AttributeError", 0, <<"object has no attribute 'get'">>)
         ELSE IF ~IsDict(DictGet(data.value, "user", EmptyDict))
              THEN Raise("AttributeError", 0, <<"object has no attribute 'get'">>)
         ELSE Return([t |-> "bool", v |-> TRUE])

\* validate_connection: the try block, then the except clauses in order.
validate_connection(reply) ==
    LET r == ValidateTry(reply) IN
    IF ~r.raised THEN r
    ELSE IF IsInstance(r, "RedmineAuthError") THEN r
    ELSE IF IsInstance(r, "ClientSSLError")
         THEN Raise("RedmineConnectionError", 0, <<"SSL error: ">> \o r.msg)
    ELSE IF IsInstance(r, "ClientResponseError")
         THEN IF r.status = 401
              THEN Raise("RedmineAuthError", 0, <<"Invalid API key">>)
              ELSE Raise("RedmineConnectionError", 0,
                         <<"HTTP error ", ToString(r.status), ": ">> \o r.msg)
    ELSE IF IsInstance(r, "ClientError")
         THEN Raise("RedmineConnectionError", 0, <<"Connection failed: ">> \o r.msg)
    ELSE Raise("RedmineConnectionError", 0, <<"Unexpected error: ">> \o r.msg)

\* Python truthiness of an optional argument: None, 0 and "" are false.
Truthy(x) ==
    CASE x.t = "null" -> FALSE
      [] x.t = "int" -> x.v # 0
      [] x.t = "str" -> x.v # ""
      [] x.t = "bool" -> x.v
      [] OTHER -> TRUE

\* A request body that carries the description whenever one was passed, the
\* empty one too.
PayloadDescriptionWhenPassed(args) ==
    LET issue == [project_id |-> args.project_id,
                  subject |-> args.subject,
                  tracker_id |-> args.tracker_id,
                  priority_id |-> IF Truthy(args.priority_id)
                                  THEN args.priority_id ELSE JInt(2)]
    IN  JDict([issue |->
            JDict(IF args.description # None
                  THEN issue @@ [description |-> args.description]
                  ELSE issue)])

\* The request body create_issue builds.
Payload(args) ==
    LET issue == [project_id |-> args.project_id,
                  subject |-> args.subject,
                  tracker_id |-> args.tracker_id,
                  priority_id |-> IF Truthy(args.priority_id)
                                  THEN args.priority_id ELSE JInt(2)]
    IN  JDict([issue |->
            JDict(IF Truthy(args.description)
                  THEN issue @@ [description |-> args.description]
                  ELSE issue)])

\* The POST create_issue issues.
CreateRequest(client, args) ==
    [method |-> "POST", url |-> client.base_url \o ISSUES,
     headers |-> Headers(client), json |-> Payload(args), timeout |-> 30, ssl |-> FALSE]

\* ', '.join(errors)
RECURSIVE Join(_)
Join(errors) ==
    IF errors = <<>> THEN <<>>
    ELSE IF Len(errors) = 1 THEN <<errors[1]>>
    ELSE <<errors[1], ", ">> \o Join(Tail(errors))

\* The 422 branch: decode the body, read "errors", raise RedmineApiError.
ValidationFailure(reply) ==
    LET error_data == response_json(reply) IN
    IF error_data.raised THEN error_data
    ELSE IF ~IsDict(error_data.value)
         THEN Raise("AttributeError", 0, <<"object has no attribute 'get'">>)
    ELSE LET errors == DictGet(error_data.value, "errors",
                               JList(<<"Unknown validation error">>))
         IN  Raise("RedmineApiError", 0, <<"Validation error: ">> \o Join(errors.v))

\* A try block that hands back the "issue" member of a decoded object only.
CreateTryIssueOnly(reply) ==
    IF reply.kind = "raise" THEN Raise(reply.exc, reply.status, reply.text)
    ELSE IF raise_for_status(reply)
         THEN Raise("ClientResponseError", reply.status, reply.text)
    ELSE LET data == response_json(reply) IN
         IF data.raised \/ ~IsDict(data.value) THEN data
         ELSE Return(DictGet(data.value, "issue", JNull))

\* The body of create_issue's try block.
CreateTry(reply) ==
    IF reply.kind = "raise" THEN Raise(reply.exc, reply.status, reply.text)
    ELSE IF reply.status = 401 THEN Raise("RedmineAuthError", 0, <<"Invalid API key">>)
    ELSE IF reply.status = 422 THEN ValidationFailure(reply)
    ELSE IF raise_for_status(reply)
         THEN Raise("ClientResponseError", reply.status, reply.text)
    ELSE response_json(reply)

\* create_issue: the try block, then its two except clauses; whatever they do
\* not match propagates as raised.
create_issue(reply) ==
    LET r == CreateTry(reply) IN
    IF ~r.raised THEN r
    ELSE IF IsInstance(r, "ClientResponseError")
         THEN Raise("RedmineApiError", 0,
                    <<"Failed to create issue: ", ToString(r.status)>>)
    ELSE IF IsInstance(r, "ClientError")
         THEN Raise("RedmineConnectionError", 0, <<"Connection failed: ">> \o r.msg)
    ELSE r

-----------------------------------------------------------------------------------------------------------------------------------------------------
(* SpecApi: the adapter called directly, as the tests of api.py call it.    *)
(* Two callers share one client; each call is suspended while the session  *)
(* has its request and again while the body is read, and the other caller  *)
(* runs meanwhile.                                                          *)

\* The client of the tests' fixture.
ApiClient == RedmineClient(HTTPS \o <<"r">>, "test_api_key")

\* The coroutines calling the client.
ApiCalls == {"call1", "call2"}

\* The arguments create_issue is called with.
IssueArgs ==
    [project_id : {JStr("test-project")},
     subject : {JStr("Test Issue")},
     tracker_id : {JInt(1)},
     description : {None, JStr(""), JStr("Test description")},
     priority_id : {None, JInt(0), JInt(2), JInt(5)}]

NoArgs ==
    [project_id |-> None, subject |-> None, tracker_id |-> None,
     description |-> None, priority_id |-> None]

\* The first caller meets every argument and every reply; the second, which
\* is there to overlap with it, one set of arguments and one reply of each
\* kind.
ArgsOf(c) ==
    IF c = "call1" THEN IssueArgs
    ELSE {a \in IssueArgs : a.description = JStr("Test description")
                              /\ a.priority_id = JInt(5)}

RepliesOf(c) ==
    IF c = "call1" THEN Replies
    ELSE {Response(201, Body("json", JDict([issue |-> JDict([id |-> JInt(123)])]))),
          Response(401, Body("html", JNull)),
          SessionRaises("TimeoutError", 0, "")}

ApiInit ==
    /\ api_pc = [c \in ApiCalls |-> "idle"]
    /\ api_op = [c \in ApiCalls |-> "none"]
    /\ api_args = [c \in ApiCalls |-> NoArgs]
    /\ api_request = [c \in ApiCalls |-> NoRequest]
    /\ api_reply = [c \in ApiCalls |-> NoReply]
    /\ api_result = [c \in ApiCalls |-> Return(JNull)]

FlowIdle ==
    /\ flow = <<>>
    /\ entries = <<>>

UrlIdle ==
    /\ url_raw = <<>>
    /\ url_norm = <<>>
    /\ url_base = <<>>
    /\ url_request = <<>>
    /\ url_pc = "off"
    /\ url_stored = <<>>
    /\ url_session = "aiohttp"
    /\ url_persisted = <<>>
    /\ url_setup = <<>>

\* No service invocation is being handled.
NoCall ==
    [pc |-> "idle", data |-> NoArgs, entry_id |-> "", args |-> NoArgs,
     requests |-> <<>>, reply |-> NoReply, outcome |-> Return(JNull),
     result |-> "none", key |-> "", text |-> <<>>, exc |-> ""]

\* The host before any installation is loaded: hass.data holds no DOMAIN key
\* and the service is not registered.
SvcIdle ==
    /\ hass_data = [present |-> FALSE, items |-> <<>>]
    /\ services = None
    /\ svc = NoCall

\* client.validate_connection() up to its first suspension: the GET is handed
\* to the session (async with self._session.get(...)).
CallValidate(c) ==
    /\ api_pc[c] = "idle"
    /\ api_pc' = [api_pc EXCEPT ![c] = "session_get"]
    /\ api_op' = [api_op EXCEPT ![c] = "validate_connection"]
    /\ api_request' = [api_request EXCEPT ![c] = ValidateRequest(ApiClient)]
    /\ UNCHANGED <<api_args, api_reply, api_result>>
    /\ UNCHANGED <<url_vars, flow_vars, svc_vars>>

\* client.create_issue(...) up to its first suspension: the payload is built
\* and the POST is handed to the session (async with self._session.post(...)).
CallCreateIssue(c) ==
    \E args \in ArgsOf(c) :
        /\ api_pc[c] = "idle"
        /\ api_pc' = [api_pc EXCEPT ![c] = "session_post"]
        /\ api_op' = [api_op EXCEPT ![c] = "create_issue"]
        /\ api_args' = [api_args EXCEPT ![c] = args]
        /\ api_request' = [api_request EXCEPT ![c] = CreateRequest(ApiClient, args)]
        /\ UNCHANGED <<api_reply, api_result>>
        /\ UNCHANGED <<url_vars, flow_vars, svc_vars>>

\* The operation a call runs on the reply it got.
Operation(op, reply) ==
    IF op = "validate_connection" THEN validate_connection(reply)
    ELSE create_issue(reply)

\* The call goes on to await response.json(): validate_connection on a
\* response that is no 401 and passes raise_for_status, create_issue on a 422
\* and on a response that is no 401 and passes raise_for_status.
ReadsBody(op, reply) ==
    /\ reply.kind = "response"
    /\ reply.status # 401
    /\ \/ ~raise_for_status(reply)
       \/ op = "create_issue" /\ reply.status = 422

\* The session answers the request or raises. The call resumes and runs to
\* its end, or to its second suspension, reading the body.
SessionAnswers(c) ==
    \E reply \in RepliesOf(c) :
        /\ api_pc[c] \in {"session_get", "session_post"}
        /\ api_reply' = [api_reply EXCEPT ![c] = reply]
        /\ IF ReadsBody(api_op[c], reply)
           THEN /\ api_pc' = [api_pc EXCEPT ![c] = "response_json"]
                /\ UNCHANGED api_result
           ELSE /\ api_pc' = [api_pc EXCEPT ![c] = "done"]
                /\ api_result' = [api_result EXCEPT ![c] = Operation(api_op[c], reply)]
        /\ UNCHANGED <<api_op, api_args, api_request>>
        /\ UNCHANGED <<url_vars, flow_vars, svc_vars>>

\* The body has been read: response.json() returns or raises and the call
\* runs to its end.
BodyRead(c) ==
    /\ api_pc[c] = "response_json"
    /\ api_pc' = [api_pc EXCEPT ![c] = "done"]
    /\ api_result' = [api_result EXCEPT ![c] = Operation(api_op[c], api_reply[c])]
    /\ UNCHANGED <<api_op, api_args, api_request, api_reply>>
    /\ UNCHANGED <<url_vars, flow_vars, svc_vars>>

\* The awaiting caller takes the outcome; the client keeps no state of the
\* call and is ready for the next one.
CallerResumes(c) ==
    /\ api_pc[c] = "done"
    /\ api_pc' = [api_pc EXCEPT ![c] = "idle"]
    /\ api_op' = [api_op EXCEPT ![c] = "none"]
    /\ api_args' = [api_args EXCEPT ![c] = NoArgs]
    /\ api_request' = [api_request EXCEPT ![c] = NoRequest]
    /\ api_reply' = [api_reply EXCEPT ![c] = NoReply]
    /\ api_result' = [api_result EXCEPT ![c] = Return(JNull)]
    /\ UNCHANGED <<url_vars, flow_vars, svc_vars>>

NextApi ==
    \E c \in ApiCalls :
        \/ CallValidate(c)
        \/ CallCreateIssue(c)
        \/ SessionAnswers(c)
        \/ BodyRead(c)
        \/ CallerResumes(c)

InitApi == ApiInit /\ UrlIdle /\ FlowIdle /\ SvcIdle

SpecApi == InitApi /\ [][NextApi]_vars

\* Classifications of a reply and of a result, used by the properties below.
Is2xx(reply) == reply.kind = "response" /\ reply.status >= 200 /\ reply.status < 300
IsStatus(reply, s) == reply.kind = "response" /\ reply.status = s
IsTimeout(reply) == reply.kind = "raise" /\ "TimeoutError" \in Ancestors(reply.exc)
Succeeded(result) == ~result.raised
RaisedExactly(result, cls) == result.raised /\ result.exc = cls
Taxonomy == {"RedmineAuthError", "RedmineConnectionError", "RedmineApiError",
             "ValidationError"}

\* A transport-level failure: the session raised before any response was read
\* (TLS, DNS, refused, reset, timeout), as opposed to an HTTP-level error.
IsTransportLevel(reply) ==
    reply.kind = "raise" /\ "ClientResponseError" \notin Ancestors(reply.exc)

\* The message carries the status code.
CarriesStatus(result, status) ==
    \E i \in 1..Len(result.msg) : result.msg[i] = ToString(status)

\* The errors list of a decoded 422 body: the "errors" member, or the code's
\* stand-in when the body has none.
ServerErrors(reply) ==
    IF "errors" \in DOMAIN reply.body.json.v
    THEN reply.body.json.v.errors.v
    ELSE <<"Unknown validation error">>

HasJsonObject(reply) ==
    reply.kind = "response" /\ reply.body.form = "json" /\ IsDict(reply.body.json)

-----------------------------------------------------------------------------
(* C1-C4: the error classification of the Transport Adapter (SpecApi). *)

\* C1 (as claimed): validate_connection succeeds on every 2xx response whatever
\* the body, raises RedmineAuthError exactly on status 401, and raises
\* RedmineConnectionError on every other status and every transport failure.
C1_ValidateClassification ==
    \A c \in ApiCalls :
        (api_pc[c] = "done" /\ api_op[c] = "validate_connection") =>
            /\ Is2xx(api_reply[c]) => Succeeded(api_result[c])
            /\ IsStatus(api_reply[c], 401)
                   <=> RaisedExactly(api_result[c], "RedmineAuthError")
            /\ (api_reply[c].kind = "raise"
                  \/ (~Is2xx(api_reply[c]) /\ ~IsStatus(api_reply[c], 401)))
               => RaisedExactly(api_result[c], "RedmineConnectionError")

\* C2 (as claimed): create_issue raises RedmineAuthError on 401, RedmineApiError
\* carrying the status on every other non-2xx status but 422, and
\* RedmineConnectionError on a transport-level failure (DNS, timeout, reset).
C2_CreateIssueClassification ==
    \A c \in ApiCalls :
        (api_pc[c] = "done" /\ api_op[c] = "create_issue") =>
            /\ IsStatus(api_reply[c], 401)
                   => RaisedExactly(api_result[c], "RedmineAuthError")
            /\ (api_reply[c].kind = "response" /\ ~Is2xx(api_reply[c])
                  /\ api_reply[c].status \notin {401, 422})
               => /\ RaisedExactly(api_result[c], "RedmineApiError")
                  /\ CarriesStatus(api_result[c], api_reply[c].status)
            /\ IsTransportLevel(api_reply[c])
               => RaisedExactly(api_result[c], "RedmineConnectionError")

\* C3 (as claimed): on a 422 response carrying an errors list, create_issue
\* raises the taxonomy's ValidationError, its message holding every error.
C3_Raises422ValidationError ==
    \A c \in ApiCalls :
        ((api_pc[c] = "done" /\ api_op[c] = "create_issue") /\ IsStatus(api_reply[c], 422)
            /\ HasJsonObject(api_reply[c]))
        => /\ RaisedExactly(api_result[c], "ValidationError")
           /\ \A i \in 1..Len(ServerErrors(api_reply[c])) :
                \E k \in 1..Len(api_result[c].msg) :
                    api_result[c].msg[k] = ServerErrors(api_reply[c])[i]

\* C4 (as claimed): every outcome of validate_connection and create_issue is a
\* success or an error of the taxonomy, and a timed-out call raises
\* RedmineConnectionError.
C4_OutcomesClassified ==
    \A c \in ApiCalls :
        api_pc[c] = "done" =>
            /\ Succeeded(api_result[c]) \/ api_result[c].exc \in Taxonomy
            /\ IsTimeout(api_reply[c])
                   => RaisedExactly(api_result[c], "RedmineConnectionError")

\* C12 (as claimed): the request body of create_issue carries priority_id 2
\* when the call omitted priority_id, and the priority_id of the call, whatever
\* its value, when the call gave one.
C12_PriorityInBody ==
    \A c \in ApiCalls :
        api_op[c] = "create_issue" =>
            api_request[c].json.v.issue.v.priority_id =
                (IF api_args[c].priority_id = None
                 THEN JInt(2) ELSE api_args[c].priority_id)

\* C17: on a 2xx response whose body is a JSON document, create_issue returns
\* that document as decoded, member for member; the id under issue in the
\* returned value is the id the server sent.
C17_ReturnsDecodedResponse ==
    \A c \in ApiCalls :
        ((api_pc[c] = "done" /\ api_op[c] = "create_issue") /\ Is2xx(api_reply[c])
            /\ api_reply[c].body.form = "json")
        => /\ Succeeded(api_result[c])
           /\ api_result[c].value = api_reply[c].body.json

\* C17 witness: the server answered 201 with issue 123 and the call returned
\* an object whose issue.id is 123.
C17_Witness ==
    \E c \in ApiCalls :
        /\ (api_pc[c] = "done" /\ api_op[c] = "create_issue")
        /\ IsStatus(api_reply[c], 201)
        /\ api_reply[c].body = Body("json", JDict([issue |-> JDict([id |-> JInt(123)])]))
        /\ Succeeded(api_result[c])
        /\ api_result[c].value.v.issue.v.id = JInt(123)

\* C21: the request body of create_issue is an object with the one key issue;
\* the issue always holds project_id, subject and tracker_id as passed and a
\* priority_id, and it holds description, as passed, exactly when the caller
\* passed a description that is not empty.
C21_BodyFields ==
    \A c \in ApiCalls :
        api_op[c] = "create_issue" =>
            LET body == api_request[c].json.v
                issue == body.issue.v
                described == /\ api_args[c].description # None
                             /\ api_args[c].description # JStr("")
            IN  /\ DOMAIN body = {"issue"}
                /\ {"project_id", "subject", "tracker_id", "priority_id"}
                       \subseteq DOMAIN issue
                /\ DOMAIN issue \subseteq
                       {"project_id", "subject", "tracker_id", "priority_id", "description"}
                /\ issue.project_id = api_args[c].project_id
                /\ issue.subject = api_args[c].subject
                /\ issue.tracker_id = api_args[c].tracker_id
                /\ issue.priority_id.t = "int"
                /\ ("description" \in DOMAIN issue) <=> described
                /\ described => issue.description = api_args[c].description

\* C21 witness: create_issue was called with the empty description and sent
\* an issue of the four fixed fields, without description.
C21_Witness ==
    \E c \in ApiCalls :
        /\ api_op[c] = "create_issue"
        /\ api_args[c].description = JStr("")
        /\ DOMAIN api_request[c].json.v.issue.v =
               {"project_id", "subject", "tracker_id", "priority_id"}

-----------------------------------------------------------------------------
(* SpecUrl: the path of a raw URL from the step-1 form to a request URL    *)
(* and on to the persisted entry: async_step_user normalises it,           *)
(* RedmineClient.__init__ strips it again, each request appends its path;  *)
(* the run waits for the validation and for the three lists, shows the     *)
(* step-2 form, and the step-2 submission persists what the run stored.    *)
(* A failed wait shows the step-1 form again, for another submission.      *)

HasScheme(u) == StartsWith(u, HTTP) \/ StartsWith(u, HTTPS)

\* A normalisation that leaves the trailing slashes in place.
NormalizeUrlKeepingSlashes(raw) ==
    IF HasScheme(raw) THEN raw ELSE HTTP \o raw

\* async_step_user: rstrip("/"), then http:// in front unless the stripped
\* text starts with http:// or https://.
NormalizeUrl(raw) ==
    LET redmine_url == Rstrip(raw)
    IN  IF HasScheme(redmine_url) THEN redmine_url ELSE HTTP \o redmine_url

EndsWithSlash(u) == u # <<>> /\ u[Len(u)] = SLASH

\* The text after the leading scheme.
AfterScheme(u) ==
    IF StartsWith(u, HTTPS) THEN SubSeq(u, Len(HTTPS) + 1, Len(u))
    ELSE IF StartsWith(u, HTTP) THEN SubSeq(u, Len(HTTP) + 1, Len(u))
    ELSE u

\* The text up to the first ch (all of it when there is none).
RECURSIVE Before(_, _)
Before(s, ch) ==
    IF s = <<>> \/ s[1] = ch THEN <<>> ELSE <<s[1]>> \o Before(Tail(s), ch)

\* self._session.get(url, ...) on the aiohttp session: before it connects, the
\* session parses the URL and refuses one without a host, or with a port that
\* is no number, with InvalidURL (a ClientError). The authority is the text
\* between the scheme and the next slash: host, then optionally a colon and
\* the port.
SessionAccepts(url) ==
    /\ HasScheme(url)
    /\ LET authority == Before(AfterScheme(url), SLASH)
           host == Before(authority, ":")
           port == SubSeq(authority, Len(host) + 2, Len(authority))
       IN  /\ host # <<>>
           /\ \A i \in 1..Len(port) :
                  port[i] \in {"0", "1", "2", "3", "4", "5", "6", "7", "8", "9"}

\* The raw inputs: nothing or a (possibly partial) scheme, then up to MaxBody
\* characters of host and slashes.
RawUrls ==
    {prefix \o body :
        prefix \in {<<>>, HTTP, HTTPS, <<"h", "t", "t", "p", ":">>},
        body \in SeqsUpTo({"a", SLASH}, MaxBody)}

\* The paths the adapter requests.
RequestPaths == {USERS_CURRENT, ISSUES}

\* session = async_get_clientsession(self.hass): the host's aiohttp session,
\* or the double a test puts in its place, which answers whatever the URL.
Sessions == {"aiohttp", "double"}

UrlInit ==
    /\ url_raw \in RawUrls
    /\ url_session \in Sessions
    /\ url_norm = <<>>
    /\ url_base = <<>>
    /\ url_request = <<>>
    /\ url_pc = "typed"
    /\ url_stored = <<>>
    /\ url_persisted = <<>>
    /\ url_setup = <<>>

\* The first lines of async_step_user.
NormalizeSubmitted ==
    /\ url_pc = "typed"
    /\ url_norm' = NormalizeUrl(url_raw)
    /\ url_pc' = "normalized"
    /\ UNCHANGED <<url_raw, url_base, url_request, url_stored, url_persisted,
                 url_setup, url_session,
                 api_vars, flow_vars, svc_vars>>

\* RedmineClient(session, redmine_url, api_key)
ConstructClient ==
    /\ url_pc = "normalized"
    /\ url_base' = RedmineClient(url_norm, "test_api_key").base_url
    /\ url_pc' = "client"
    /\ UNCHANGED <<url_raw, url_norm, url_request, url_stored, url_persisted,
                 url_setup, url_session,
                 api_vars, flow_vars, svc_vars>>

\* f"{self._base_url}/users/current.json", f"{self._base_url}/issues.json"
BuildRequestUrl ==
    \E path \in RequestPaths :
        /\ url_pc = "client"
        /\ url_request' = url_base \o path
        /\ url_pc' = "request"
        /\ UNCHANGED <<url_raw, url_norm, url_base, url_stored, url_persisted,
                     url_setup, url_session,
                     api_vars, flow_vars, svc_vars>>

\* await client.validate_connection() ends. With the aiohttp session it can
\* succeed only for a URL that session accepts. On success the run stores the normalised URL
\* (self._redmine_url = redmine_url) and goes on to the first list; on a
\* failure the step-1 form is shown again with the error, and what an
\* earlier submission stored stays.
ValidateAnswered ==
    \E ok \in BOOLEAN :
        /\ url_pc = "request"
        /\ url_request = url_base \o USERS_CURRENT
        /\ ok => (url_session = "double" \/ SessionAccepts(url_request))
        /\ url_stored' = IF ok THEN url_norm ELSE url_stored
        /\ url_pc' = IF ok THEN "get_projects" ELSE "user_form"
        /\ UNCHANGED <<url_raw, url_norm, url_base, url_request, url_persisted,
                       url_setup, url_session,
                       api_vars, flow_vars, svc_vars>>

\* await client.get_projects() / get_priorities() / get_trackers() ends: the
\* next wait (after the last list async_step_user returns
\* async_step_options(), the step-2 form), or on a failure the step-1 form.
ListAnswered ==
    \E ok \in BOOLEAN :
        /\ url_pc \in {"get_projects", "get_priorities", "get_trackers"}
        /\ url_pc' = CASE ~ok -> "user_form"
                        [] url_pc = "get_projects" -> "get_priorities"
                        [] url_pc = "get_priorities" -> "get_trackers"
                        [] url_pc = "get_trackers" -> "options_form"
        /\ UNCHANGED <<url_raw, url_norm, url_base, url_request, url_stored,
                       url_persisted, url_setup, url_session,
                       api_vars, flow_vars, svc_vars>>

\* The operator submits the step-1 form again: async_step_user starts over
\* with new locals; self._redmine_url keeps what the run stored.
SubmitAgain ==
    \E raw \in RawUrls :
        /\ url_pc = "user_form"
        /\ url_raw' = raw
        /\ url_norm' = <<>>
        /\ url_base' = <<>>
        /\ url_request' = <<>>
        /\ url_pc' = "typed"
        /\ UNCHANGED <<url_stored, url_persisted, url_setup,
                       url_session,
                       api_vars, flow_vars, svc_vars>>

\* async_step_options(user_input): the unique id is set and the run aborts
\* when another run or an entry created meanwhile holds it; otherwise
\* async_create_entry persists self._redmine_url under CONF_REDMINE_URL, or
\* int() raises on a submitted id and the form stays.
PersistEntry ==
    \E outcome \in {"abort", "raised", "create_entry"} :
        /\ url_pc = "options_form"
        /\ url_persisted' = IF outcome = "create_entry" THEN url_stored
                            ELSE url_persisted
        /\ url_pc' = CASE outcome = "abort" -> "aborted"
                        [] outcome = "raised" -> "options_form"
                        [] outcome = "create_entry" -> "persisted"
        /\ UNCHANGED <<url_raw, url_norm, url_base, url_request, url_stored,
                       url_setup, url_session,
                       api_vars, flow_vars, svc_vars>>

\* async_setup_entry: RedmineClient(session, entry.data[CONF_REDMINE_URL], ...)
SetupEntryClient ==
    /\ url_pc = "persisted"
    /\ url_setup' = RedmineClient(url_persisted, "test_api_key").base_url
    /\ url_pc' = "loaded"
    /\ UNCHANGED <<url_raw, url_norm, url_base, url_request, url_stored,
                   url_persisted, url_session,
                   api_vars, flow_vars, svc_vars>>

NextUrl ==
    \/ NormalizeSubmitted
    \/ ConstructClient
    \/ BuildRequestUrl
    \/ ValidateAnswered
    \/ ListAnswered
    \/ SubmitAgain
    \/ PersistEntry
    \/ SetupEntryClient

InitUrl == UrlInit /\ ApiInit /\ FlowIdle /\ SvcIdle

SpecUrl == InitUrl /\ [][NextUrl]_vars

-----------------------------------------------------------------------------
(* C9, C10: URL normalisation (SpecUrl). *)

\* C9 (as claimed): the normalised URL starts with exactly one scheme; an input
\* without a scheme gets http:// put in front once, and an input that already
\* starts with http:// or https:// gets nothing put in front (only its trailing
\* slashes go).
C9_OneSchemePrefix ==
    url_pc # "typed" =>
        /\ HasScheme(url_norm)
        /\ ~HasScheme(AfterScheme(url_norm))
        /\ ~HasScheme(url_raw) => url_norm = HTTP \o Rstrip(url_raw)
        /\ HasScheme(url_raw) => StartsWith(url_raw, url_norm)

\* C10 (as claimed): for an input ending in one or more slashes the normalised
\* URL has no trailing slash, and every request URL is the normalised URL
\* followed by a path that begins with exactly one slash.
C10_NoTrailingSlash ==
    (url_pc # "typed" /\ EndsWithSlash(url_raw)) =>
        /\ ~EndsWithSlash(url_norm)
        /\ url_pc = "request" =>
               \E path \in RequestPaths :
                   /\ url_request = url_norm \o path
                   /\ path[1] = SLASH
                   /\ path[2] # SLASH

\* C20: with the session the host hands out (async_get_clientsession, an
\* aiohttp session), whatever the raw input, the redmine_url of a persisted
\* entry has no trailing slash and starts with http:// or https://, and the
\* client async_setup_entry builds from it has it, unchanged, as its base URL.
C20_PersistedBaseUrl ==
    url_session = "aiohttp" =>
        /\ url_pc \in {"persisted", "loaded"} =>
               /\ ~EndsWithSlash(url_persisted)
               /\ HasScheme(url_persisted)
        /\ url_pc = "loaded" => url_setup = url_persisted

\* C20 witness: on the host's session the operator typed a host without
\* scheme and with two trailing slashes, and the entry persisted for it is
\* loaded.
C20_Witness ==
    /\ url_session = "aiohttp"
    /\ url_pc = "loaded"
    /\ url_raw = <<"a", "/", "/">>
    /\ url_persisted = HTTP \o <<"a">>
    /\ url_setup = url_persisted

-----------------------------------------------------------------------------
(* The Setup Negotiator: RedmineConfigFlow, and the host around it.         *)
(* A handler runs until it awaits a request; the reply resumes it.  Two     *)
(* setup runs interleave at those points.                                   *)

Some(x) == [t |-> "some", v |-> x]

\* const.py
CONF_REDMINE_URL == "redmine_url"
CONF_API_KEY == "api_key"
CONF_DEFAULT_PROJECT_ID == "default_project_id"
CONF_DEFAULT_TRACKER_ID == "default_tracker_id"
\* Imported by config_flow.py; const.py does not define it.  Its value is the
\* field name of the persisted configuration record.
CONF_DEFAULT_PRIORITY_ID == "default_priority_id"

\* The setup runs.
FlowIds == {"run1", "run2"}

\* What the operator types into the step-1 form.
FlowUrls == {<<"a", "/">>, HTTP \o <<"a">>, <<"b">>}
FlowKeys == {"key1", "key2"}

\* The reference data of the server.
ProjectItems == <<JDict([identifier |-> JStr("test-project"), name |-> JStr("Test")])>>
TrackerItems == <<JDict([id |-> JInt(1), name |-> JStr("Bug")])>>
PriorityItems ==
    <<JDict([id |-> JInt(2), name |-> JStr("Normal"), is_default |-> [t |-> "bool", v |-> TRUE]]),
      JDict([id |-> JInt(3), name |-> JStr("Low")])>>

\* The replies the server gives a setup run: one of each kind of outcome.
FlowValidateReplies ==
    {Response(200, Body("json", JDict([user |-> JDict([login |-> JStr("admin")])]))),
     Response(401, Body("html", JNull)),
     Response(500, Body("html", JNull)),
     SessionRaises("TimeoutError", 0, "")}

ListReplies(key, items) ==
    {Response(200, Body("json", JDict(key :> JList(items)))),
     Response(500, Body("html", JNull)),
     SessionRaises("ClientConnectorError", 0, "cannot connect to host")}

\* list_projects / list_trackers / list_priorities of the adapter: the items of
\* the collection in server order, or RedmineConnectionError.
ListOperation(reply, key) ==
    IF Is2xx(reply) /\ HasJsonObject(reply) /\ key \in DOMAIN reply.body.json.v
    THEN Return(reply.body.json.v[key])
    ELSE Raise("RedmineConnectionError", 0, <<"Connection failed">>)

get_projects(reply) == ListOperation(reply, "projects")
get_priorities(reply) == ListOperation(reply, "issue_priorities")
get_trackers(reply) == ListOperation(reply, "trackers")

\* No step-2 form has been built.
NoForm ==
    [project_options |-> {}, tracker_options |-> {}, priority_options |-> {},
     defaults |-> [default_project_id |-> None, default_tracker_id |-> None,
                   default_priority_id |-> None]]

\* RedmineConfigFlow.__init__, with the bookkeeping of the run: the handler's
\* position and locals, the result last handed to the host, and the adapter
\* operations called for the submission being handled.
NewFlow ==
    [pc |-> "init",
     redmine_url |-> None, api_key |-> None, client |-> None,
     projects |-> JList(<<>>), priorities |-> JList(<<>>), trackers |-> JList(<<>>),
     user_input |-> None,
     last |-> "none", step_id |-> "", errors |-> {}, exc |-> "",
     calls |-> <<>>, validated |-> "", fetch_failed |-> "",
     unique_id |-> None, abort_reason |-> "", title |-> None,
     form |-> NoForm, chosen |-> None, explicit_project |-> FALSE,
     accepted |-> None, replaced |-> FALSE]

\* The state of the negotiation a run is in.
FlowState(fl) ==
    CASE fl.pc \in {"init", "user_form", "validating", "get_projects",
                    "get_priorities", "get_trackers"} -> "CollectCredentials"
      [] fl.pc = "options_form" -> "CollectDefaults"
      [] fl.pc = "created" -> "Terminal-Success"
      [] fl.pc = "aborted" -> "Terminal-Abort"

\* self.async_show_form(step_id=..., errors=errors): the handler returns.
ShowForm(fl, step_id, errors) ==
    [fl EXCEPT !.pc = IF step_id = "user" THEN "user_form" ELSE "options_form",
               !.last = "form", !.step_id = step_id, !.errors = errors, !.exc = "",
               !.user_input = None]

\* An exception leaves the handler: the host keeps the run at its current step.
Propagates(fl, outcome) ==
    [fl EXCEPT !.pc = IF fl.pc = "options_form" THEN "options_form" ELSE "user_form",
               !.last = "raised", !.exc = outcome.exc, !.user_input = None]

\* Except clauses that put the authentication error on the URL field.
ValidateCatchWrongField(outcome) ==
    IF IsInstance(outcome, "RedmineAuthError")
    THEN [errors |-> {<<"redmine_url", "invalid_auth">>}, propagates |-> FALSE]
    ELSE [errors |-> {<<"redmine_url", "cannot_connect">>}, propagates |-> FALSE]

\* Except clauses that handle RedmineAuthError only.
ValidateCatchAuthOnly(outcome) ==
    IF IsInstance(outcome, "RedmineAuthError")
    THEN [errors |-> {<<"api_key", "invalid_auth">>}, propagates |-> FALSE]
    ELSE [errors |-> {}, propagates |-> TRUE]

\* The except clauses around validate_connection: the errors they set.
ValidateCatch(outcome) ==
    IF IsInstance(outcome, "RedmineAuthError")
    THEN [errors |-> {<<"api_key", "invalid_auth">>}, propagates |-> FALSE]
    ELSE IF IsInstance(outcome, "RedmineConnectionError")
    THEN [errors |-> {<<"redmine_url", "cannot_connect">>}, propagates |-> FALSE]
    ELSE IF IsInstance(outcome, "Exception")
    THEN [errors |-> {<<"base", "unknown">>}, propagates |-> FALSE]
    ELSE [errors |-> {}, propagates |-> TRUE]

\* The except clause around the three list operations.
FetchCatch(outcome) ==
    IF IsInstance(outcome, "RedmineConnectionError")
    THEN [errors |-> {<<"base", "cannot_fetch_options">>}, propagates |-> FALSE]
    ELSE [errors |-> {}, propagates |-> TRUE]

\* async_step_user(user_input) up to its first await: normalise the URL, build
\* the client, call validate_connection.
UserSubmitted(fl, raw, key) ==
    LET redmine_url == NormalizeUrl(raw)
    IN  [fl EXCEPT !.pc = "validating",
                   !.user_input = Some([redmine_url |-> redmine_url, api_key |-> key,
                                        client |-> RedmineClient(redmine_url, key)]),
                   !.calls = <<"validate_connection">>,
                   !.validated = "", !.fetch_failed = "",
                   !.accepted = None, !.replaced = FALSE]

\* A resumption that keeps the credentials an earlier submission stored.
ValidateResumedKeepingFirst(fl, outcome) ==
    LET handled == IF outcome.raised THEN ValidateCatch(outcome)
                   ELSE [errors |-> {}, propagates |-> FALSE]
        seen == [fl EXCEPT !.validated = IF outcome.raised THEN outcome.exc ELSE "ok",
                           !.accepted = IF outcome.raised THEN None
                                        ELSE Some([redmine_url |-> fl.user_input.v.redmine_url,
                                                   api_key |-> fl.user_input.v.api_key]),
                           !.replaced = /\ ~outcome.raised
                                        /\ fl.redmine_url # None
                                        /\ fl.redmine_url.v # fl.user_input.v.redmine_url
                                        /\ fl.api_key.v # fl.user_input.v.api_key]
    IN  IF handled.propagates THEN Propagates(seen, outcome)
        ELSE IF handled.errors # {} THEN ShowForm(seen, "user", handled.errors)
        ELSE [seen EXCEPT !.redmine_url = IF @ = None
                                          THEN Some(fl.user_input.v.redmine_url) ELSE @,
                          !.api_key = IF @ = None
                                      THEN Some(fl.user_input.v.api_key) ELSE @,
                          !.client = Some(fl.user_input.v.client),
                          !.calls = Append(@, "get_projects"),
                          !.pc = "get_projects"]

\* async_step_user resumed by validate_connection's outcome: the except
\* clauses, then either the form again or the credentials stored and
\* get_projects called.
ValidateResumed(fl, outcome) ==
    LET handled == IF outcome.raised THEN ValidateCatch(outcome)
                   ELSE [errors |-> {}, propagates |-> FALSE]
        seen == [fl EXCEPT !.validated = IF outcome.raised THEN outcome.exc ELSE "ok",
                           !.accepted = IF outcome.raised THEN None
                                        ELSE Some([redmine_url |-> fl.user_input.v.redmine_url,
                                                   api_key |-> fl.user_input.v.api_key]),
                           !.replaced = /\ ~outcome.raised
                                        /\ fl.redmine_url # None
                                        /\ fl.redmine_url.v # fl.user_input.v.redmine_url
                                        /\ fl.api_key.v # fl.user_input.v.api_key]
    IN  IF handled.propagates THEN Propagates(seen, outcome)
        ELSE IF handled.errors # {} THEN ShowForm(seen, "user", handled.errors)
        ELSE [seen EXCEPT !.redmine_url = Some(fl.user_input.v.redmine_url),
                          !.api_key = Some(fl.user_input.v.api_key),
                          !.client = Some(fl.user_input.v.client),
                          !.calls = Append(@, "get_projects"),
                          !.pc = "get_projects"]

\* str(n) of the option values, and int(s) of the chosen ones.
IdRange == 0..9
Str(n) == ToString(n)
ParseInt(s) ==
    IF \E n \in IdRange : Str(n) = s
    THEN Return(JInt(CHOOSE n \in IdRange : Str(n) = s))
    ELSE Raise("ValueError", 0, <<"invalid literal for int()">>)

\* The values of the three dropdowns of the step-2 form.
project_options(fl) == {fl.projects.v[i].v.identifier.v : i \in 1..Len(fl.projects.v)}
tracker_options(fl) == {Str(fl.trackers.v[i].v.id.v) : i \in 1..Len(fl.trackers.v)}
priority_options(fl) == {Str(fl.priorities.v[i].v.id.v) : i \in 1..Len(fl.priorities.v)}

\* A default priority that is the first priority whatever the flags.
default_priority_first(fl) ==
    IF fl.priorities.v # <<>> THEN Str(fl.priorities.v[1].v.id.v) ELSE "2"

\* next(str(p["id"]) for p in priorities if p.get("is_default")), or None
RECURSIVE FirstDefault(_)
FirstDefault(items) ==
    IF items = <<>> THEN None
    ELSE IF Truthy(DictGet(Head(items), "is_default", None))
         THEN Some(Str(Head(items).v.id.v))
         ELSE FirstDefault(Tail(items))

\* default_priority: the first priority flagged is_default, else the first
\* priority, else "2".
default_priority(fl) ==
    IF FirstDefault(fl.priorities.v) # None THEN FirstDefault(fl.priorities.v).v
    ELSE IF fl.priorities.v # <<>> THEN Str(fl.priorities.v[1].v.id.v)
    ELSE "2"

\* The default of the tracker field: the first tracker, else "1".
default_tracker(fl) ==
    IF fl.trackers.v # <<>> THEN Str(fl.trackers.v[1].v.id.v) ELSE "1"

\* A schema whose project field is pre-selected with the first project.
options_schema_project_preselected(fl) ==
    [project_options |-> project_options(fl),
     tracker_options |-> tracker_options(fl),
     priority_options |-> priority_options(fl),
     defaults |-> [default_project_id |->
                       IF fl.projects.v # <<>>
                       THEN Some(fl.projects.v[1].v.identifier.v) ELSE None,
                   default_tracker_id |-> Some(default_tracker(fl)),
                   default_priority_id |-> Some(default_priority(fl))]]

\* options_schema: three required dropdowns; the tracker and the priority
\* field carry a default, the project field carries none.
options_schema(fl) ==
    [project_options |-> project_options(fl),
     tracker_options |-> tracker_options(fl),
     priority_options |-> priority_options(fl),
     defaults |-> [default_project_id |-> None,
                   default_tracker_id |-> Some(default_tracker(fl)),
                   default_priority_id |-> Some(default_priority(fl))]]

\* async_step_options(None): the step-2 form is built and shown.
OptionsShown(fl) == [ShowForm(fl, "options", {}) EXCEPT !.form = options_schema(fl)]

\* A resumption that goes on to the next step although the fetch failed.
FetchResumedIgnoringFailure(fl, outcome, field, next) ==
    LET seen == [fl EXCEPT !.fetch_failed = IF outcome.raised THEN fl.pc ELSE @]
    IN  IF next = "options" THEN OptionsShown(seen)
        ELSE [seen EXCEPT !.calls = Append(@, next), !.pc = next]

\* async_step_user resumed by the outcome of a list operation: store the list
\* and call the next one (or go on to the options step), or report the failure.
FetchResumed(fl, outcome, field, next) ==
    IF outcome.raised
    THEN LET handled == FetchCatch(outcome)
             seen == [fl EXCEPT !.fetch_failed = fl.pc]
         IN  IF handled.propagates THEN Propagates(seen, outcome)
             ELSE ShowForm(seen, "user", handled.errors)
    ELSE LET stored == [fl EXCEPT ![field] = outcome.value]
         IN  IF next = "options" THEN OptionsShown(stored)
             ELSE [stored EXCEPT !.calls = Append(@, next), !.pc = next]

\* What the operator can submit in step 2: one option of each dropdown.
OptionChoices(fl) ==
    [default_project_id : project_options(fl),
     default_tracker_id : tracker_options(fl),
     default_priority_id : priority_options(fl)]

\* What the operator can send for step 2: for each dropdown one of its
\* options, or nothing.
OperatorInputs(fl) ==
    [default_project_id : {None} \cup {Some(o) : o \in fl.form.project_options},
     default_tracker_id : {None} \cup {Some(o) : o \in fl.form.tracker_options},
     default_priority_id : {None} \cup {Some(o) : o \in fl.form.priority_options}]

\* The host applies options_schema before it calls the handler: a field left
\* out takes its default, a required field left out that has no default is
\* refused, and so is a value that is not one of the options.
SchemaValidate(form, typed) ==
    LET filled(value, default) == IF value # None THEN value ELSE default
        project == filled(typed.default_project_id, form.defaults.default_project_id)
        tracker == filled(typed.default_tracker_id, form.defaults.default_tracker_id)
        priority == filled(typed.default_priority_id, form.defaults.default_priority_id)
    IN  IF \/ project = None \/ tracker = None \/ priority = None
        THEN [ok |-> FALSE, user_input |-> None]
        ELSE IF \/ project.v \notin form.project_options
                \/ tracker.v \notin form.tracker_options
                \/ priority.v \notin form.priority_options
        THEN [ok |-> FALSE, user_input |-> None]
        ELSE [ok |-> TRUE,
              user_input |-> [default_project_id |-> project.v,
                              default_tracker_id |-> tracker.v,
                              default_priority_id |-> priority.v]]

\* Entry data that keeps the chosen tracker and priority as the form's text.
EntryDataUncoerced(fl, user_input, tracker, priority) ==
    (CONF_REDMINE_URL :> fl.redmine_url)
    @@ (CONF_API_KEY :> fl.api_key)
    @@ (CONF_DEFAULT_PROJECT_ID :> JStr(user_input.default_project_id))
    @@ (CONF_DEFAULT_TRACKER_ID :> JStr(user_input.default_tracker_id))
    @@ (CONF_DEFAULT_PRIORITY_ID :> JStr(user_input.default_priority_id))

\* The data of the entry async_step_options creates.
EntryData(fl, user_input, tracker, priority) ==
    (CONF_REDMINE_URL :> fl.redmine_url)
    @@ (CONF_API_KEY :> fl.api_key)
    @@ (CONF_DEFAULT_PROJECT_ID :> JStr(user_input.default_project_id))
    @@ (CONF_DEFAULT_TRACKER_ID :> tracker)
    @@ (CONF_DEFAULT_PRIORITY_ID :> priority)

\* self._abort_if_unique_id_configured(): an entry with this unique id exists.
UniqueIdConfigured(persisted, unique_id) ==
    \E i \in 1..Len(persisted) : persisted[i].unique_id = unique_id

\* async_set_unique_id: another run in progress already carries this unique id.
UniqueIdInProgress(flows, f, unique_id) ==
    \E g \in FlowIds \ {f} :
        /\ flows[g].pc \notin {"created", "aborted"}
        /\ flows[g].unique_id = unique_id

\* title=f"Redmine ({self._redmine_url})"
EntryTitle(redmine_url) ==
    <<"R", "e", "d", "m", "i", "n", "e", " ", "(">> \o redmine_url \o <<")">>

\* A variant of the step-2 submission that never looks for an existing entry.
OptionsSubmittedUnchecked(fl, in_progress, configured, user_input) ==
    [fl EXCEPT !.pc = "created", !.last = "create_entry",
               !.unique_id = fl.redmine_url, !.title = Some(EntryTitle(fl.redmine_url.v))]

\* async_step_options(user_input): set the unique id, abort on a duplicate,
\* otherwise create the entry.
OptionsSubmitted(fl, in_progress, configured, user_input) ==
    LET tracker == ParseInt(user_input.default_tracker_id)
        priority == ParseInt(user_input.default_priority_id)
    IN  IF in_progress
        THEN [fl EXCEPT !.pc = "aborted", !.last = "abort",
                        !.abort_reason = "already_in_progress"]
        ELSE IF configured
        THEN [fl EXCEPT !.pc = "aborted", !.last = "abort",
                        !.unique_id = fl.redmine_url,
                        !.abort_reason = "already_configured"]
        ELSE IF tracker.raised
        THEN Propagates([fl EXCEPT !.unique_id = fl.redmine_url], tracker)
        ELSE IF priority.raised
        THEN Propagates([fl EXCEPT !.unique_id = fl.redmine_url], priority)
        ELSE [fl EXCEPT !.pc = "created", !.last = "create_entry",
                        !.unique_id = fl.redmine_url, !.title = Some(EntryTitle(fl.redmine_url.v))]

\* The entry the host persists for a run that ended in create_entry.
NewEntry(fl, user_input) ==
    [unique_id |-> fl.unique_id,
     title |-> fl.title,
     data |-> EntryData(fl, user_input,
                        ParseInt(user_input.default_tracker_id).value,
                        ParseInt(user_input.default_priority_id).value)]

-----------------------------------------------------------------------------
(* Spec: two setup runs against one host. *)

FlowInit ==
    /\ flow = [f \in FlowIds |-> NewFlow]
    /\ entries = <<>>

\* The host opens the run: async_step_user(None) shows the empty step-1 form.
StartFlow(f) ==
    /\ flow[f].pc = "init"
    /\ flow' = [flow EXCEPT ![f] = ShowForm(@, "user", {})]
    /\ UNCHANGED <<entries, api_vars, url_vars, svc_vars>>

\* The operator submits the step-1 form.
SubmitUser(f) ==
    \E raw \in FlowUrls, key \in FlowKeys :
        /\ flow[f].pc = "user_form"
        /\ flow' = [flow EXCEPT ![f] = UserSubmitted(@, raw, key)]
        /\ UNCHANGED <<entries, api_vars, url_vars, svc_vars>>

\* The reply to GET /users/current.json arrives.
ValidateReturns(f) ==
    \E reply \in FlowValidateReplies :
        /\ flow[f].pc = "validating"
        /\ flow' = [flow EXCEPT ![f] = ValidateResumed(@, validate_connection(reply))]
        /\ UNCHANGED <<entries, api_vars, url_vars, svc_vars>>

\* The reply to GET /projects.json arrives.
ProjectsReturn(f) ==
    \E reply \in ListReplies("projects", ProjectItems) :
        /\ flow[f].pc = "get_projects"
        /\ flow' = [flow EXCEPT ![f] =
                        FetchResumed(@, get_projects(reply), "projects", "get_priorities")]
        /\ UNCHANGED <<entries, api_vars, url_vars, svc_vars>>

\* The reply to GET /issue_priorities.json arrives.
PrioritiesReturn(f) ==
    \E reply \in ListReplies("issue_priorities", PriorityItems) :
        /\ flow[f].pc = "get_priorities"
        /\ flow' = [flow EXCEPT ![f] =
                        FetchResumed(@, get_priorities(reply), "priorities", "get_trackers")]
        /\ UNCHANGED <<entries, api_vars, url_vars, svc_vars>>

\* The reply to GET /trackers.json arrives.
TrackersReturn(f) ==
    \E reply \in ListReplies("trackers", TrackerItems) :
        /\ flow[f].pc = "get_trackers"
        /\ flow' = [flow EXCEPT ![f] =
                        FetchResumed(@, get_trackers(reply), "trackers", "options")]
        /\ UNCHANGED <<entries, api_vars, url_vars, svc_vars>>

\* The operator submits the step-2 form: the host validates the submission
\* against the schema of the form, calls the handler with it, and persists a
\* created entry.
SubmitOptions(f) ==
    \E typed \in OperatorInputs(flow[f]) :
        /\ flow[f].pc = "options_form"
        /\ LET checked == SchemaValidate(flow[f].form, typed)
               user_input == checked.user_input
               done == [OptionsSubmitted(flow[f],
                            UniqueIdInProgress(flow, f, flow[f].redmine_url),
                            UniqueIdConfigured(entries, flow[f].redmine_url),
                            user_input)
                        EXCEPT !.chosen = Some(user_input),
                               !.explicit_project = typed.default_project_id # None]
           IN  IF ~checked.ok
               THEN UNCHANGED <<flow, entries>>
               ELSE /\ flow' = [flow EXCEPT ![f] = done]
                    /\ entries' = IF done.last = "create_entry"
                                  THEN Append(entries, NewEntry(done, user_input))
                                  ELSE entries
        /\ UNCHANGED <<api_vars, url_vars, svc_vars>>

Next ==
    \E f \in FlowIds :
        \/ StartFlow(f)
        \/ SubmitUser(f)
        \/ ValidateReturns(f)
        \/ ProjectsReturn(f)
        \/ PrioritiesReturn(f)
        \/ TrackersReturn(f)
        \/ SubmitOptions(f)

Init == FlowInit /\ ApiInit /\ UrlIdle /\ SvcIdle

Spec == Init /\ [][Next]_vars

-----------------------------------------------------------------------------
(* C5-C8: the Setup Negotiator (Spec). *)

\* C5: a step-1 submission whose validate_connection failed leaves the run in
\* CollectCredentials with the step-1 form shown again and exactly one error: on
\* the API key field for RedmineAuthError, on the URL field for
\* RedmineConnectionError, the form-level "unknown" otherwise; and no list
\* operation was called for that submission.
C5_FailedValidationReshown ==
    \A f \in FlowIds :
        LET fl == flow[f] IN
        fl.validated \notin {"", "ok"} =>
            /\ FlowState(fl) = "CollectCredentials"
            /\ fl.pc = "user_form" /\ fl.last = "form" /\ fl.step_id = "user"
            /\ Cardinality(fl.errors) = 1
            /\ fl.errors =
                 CASE fl.validated = "RedmineAuthError" -> {<<"api_key", "invalid_auth">>}
                   [] fl.validated = "RedmineConnectionError" ->
                         {<<"redmine_url", "cannot_connect">>}
                   [] OTHER -> {<<"base", "unknown">>}
            /\ fl.calls = <<"validate_connection">>

\* C5 witness: one run was refused for its key, the other for its URL.
C5_Witness ==
    \E f, g \in FlowIds :
        /\ flow[f].validated = "RedmineAuthError"
        /\ flow[f].errors = {<<"api_key", "invalid_auth">>}
        /\ flow[g].validated = "RedmineConnectionError"
        /\ flow[g].errors = {<<"redmine_url", "cannot_connect">>}

\* C6: after a successful validate_connection the list operations are called
\* in turn; when one of them fails with RedmineConnectionError the run shows
\* the step-1 form with the single error base = cannot_fetch_options and stays
\* in CollectCredentials; a run is in CollectDefaults only after all three
\* were called and none failed.
C6_FetchFailureStays ==
    \A f \in FlowIds :
        LET fl == flow[f] IN
        /\ (fl.validated = "ok" /\ fl.calls # <<>>) =>
               /\ Len(fl.calls) >= 2
               /\ fl.calls[2] = "get_projects"
        /\ fl.fetch_failed # "" =>
               /\ fl.validated = "ok"
               /\ FlowState(fl) = "CollectCredentials"
               /\ fl.pc = "user_form" /\ fl.last = "form" /\ fl.step_id = "user"
               /\ fl.errors = {<<"base", "cannot_fetch_options">>}
               /\ fl.calls[Len(fl.calls)] = fl.fetch_failed
        /\ FlowState(fl) = "CollectDefaults" =>
               /\ fl.fetch_failed = ""
               /\ fl.calls = <<"validate_connection", "get_projects",
                               "get_priorities", "get_trackers">>

\* C6 witness: get_priorities failed after get_projects succeeded, and the
\* step-1 form is shown with cannot_fetch_options.
C6_Witness ==
    \E f \in FlowIds :
        /\ flow[f].fetch_failed = "get_priorities"
        /\ flow[f].calls = <<"validate_connection", "get_projects", "get_priorities">>
        /\ flow[f].pc = "user_form"
        /\ flow[f].errors = {<<"base", "cannot_fetch_options">>}

\* C7: whatever was submitted, a run that is not waiting for a reply shows its
\* step's form again with an error, or has moved on to the next step's form, or
\* has ended in a created entry or an abort; no handler ever raised.
C7_NoExceptionEscapes ==
    \A f \in FlowIds :
        LET fl == flow[f] IN
        /\ fl.last # "raised" /\ fl.exc = ""
        /\ fl.pc = "user_form" =>
               /\ fl.last = "form" /\ fl.step_id = "user"
               /\ fl.calls # <<>> => fl.errors # {}
        /\ fl.pc = "options_form" =>
               fl.last = "form" /\ fl.step_id = "options" /\ fl.errors = {}
        /\ fl.pc = "created" => fl.last = "create_entry"
        /\ fl.pc = "aborted" => fl.last = "abort"

\* C7 witness: one run got its form back with an error after a timed-out
\* validation, the other ended with an entry.
C7_Witness ==
    \E f, g \in FlowIds :
        /\ flow[f].pc = "user_form" /\ flow[f].validated = "RedmineConnectionError"
        /\ flow[f].errors # {}
        /\ flow[g].pc = "created"

\* C8: no two persisted entries share a unique id (the normalised URL); of two
\* runs that submitted step 2 for the same normalised URL one created the
\* entry and the other aborted; and a run aborts only as already_configured,
\* with an entry for its URL persisted.
C8_NoDuplicateInstallation ==
    /\ \A i, j \in 1..Len(entries) :
           i # j => entries[i].unique_id # entries[j].unique_id
    /\ \A f, g \in FlowIds :
           (f # g /\ flow[f].pc \in {"created", "aborted"}
                  /\ flow[g].pc \in {"created", "aborted"}
                  /\ flow[f].redmine_url = flow[g].redmine_url)
           => {flow[f].pc, flow[g].pc} = {"created", "aborted"}
    /\ \A f \in FlowIds :
           flow[f].pc = "aborted" =>
               /\ flow[f].abort_reason = "already_configured"
               /\ flow[f].last = "abort"
               /\ \E i \in 1..Len(entries) : entries[i].unique_id = flow[f].redmine_url

\* C8 witness: both runs submitted step 2 for http://a; one entry exists and
\* the other run aborted.
C8_Witness ==
    \E f, g \in FlowIds :
        /\ flow[f].pc = "created" /\ flow[g].pc = "aborted"
        /\ flow[f].redmine_url = Some(HTTP \o <<"a">>)
        /\ flow[g].redmine_url = flow[f].redmine_url
        /\ Len(entries) = 1

-----------------------------------------------------------------------------
(* SpecOptions: one setup run against servers whose reference lists have    *)
(* every shape that matters to the step-2 form: empty lists, several items, *)
(* the is_default flag on the first item, on a later one, on two, on none.  *)

OptionsRun == "run1"

Project(identifier, name) == JDict([identifier |-> JStr(identifier), name |-> JStr(name)])
Tracker(id, name) == JDict([id |-> JInt(id), name |-> JStr(name)])
Priority(id, name) == JDict([id |-> JInt(id), name |-> JStr(name)])
PriorityFlagged(id, name, flag) ==
    JDict([id |-> JInt(id), name |-> JStr(name), is_default |-> [t |-> "bool", v |-> flag]])

ProjectLists ==
    {<<>>,
     <<Project("test-project", "Test")>>,
     <<Project("ops", "Operations"), Project("test-project", "Test")>>}

TrackerLists ==
    {<<>>,
     <<Tracker(1, "Bug")>>,
     <<Tracker(2, "Feature"), Tracker(1, "Bug")>>}

PriorityLists ==
    {<<>>,
     <<PriorityFlagged(2, "Normal", TRUE), Priority(3, "Low")>>,
     <<Priority(2, "Normal"), Priority(3, "Low")>>,
     <<Priority(3, "Low"), PriorityFlagged(2, "Normal", TRUE)>>,
     <<PriorityFlagged(3, "Low", FALSE), PriorityFlagged(4, "High", TRUE),
       PriorityFlagged(2, "Normal", TRUE)>>}

\* The server lists its projects.
ProjectsListed(f) ==
    \E items \in ProjectLists :
        /\ flow[f].pc = "get_projects"
        /\ flow' = [flow EXCEPT ![f] =
               FetchResumed(@, get_projects(Response(200,
                                   Body("json", JDict([projects |-> JList(items)])))),
                            "projects", "get_priorities")]
        /\ UNCHANGED <<entries, api_vars, url_vars, svc_vars>>

\* The server lists its priorities.
PrioritiesListed(f) ==
    \E items \in PriorityLists :
        /\ flow[f].pc = "get_priorities"
        /\ flow' = [flow EXCEPT ![f] =
               FetchResumed(@, get_priorities(Response(200,
                                   Body("json", JDict([issue_priorities |-> JList(items)])))),
                            "priorities", "get_trackers")]
        /\ UNCHANGED <<entries, api_vars, url_vars, svc_vars>>

\* The server lists its trackers.
TrackersListed(f) ==
    \E items \in TrackerLists :
        /\ flow[f].pc = "get_trackers"
        /\ flow' = [flow EXCEPT ![f] =
               FetchResumed(@, get_trackers(Response(200,
                                   Body("json", JDict([trackers |-> JList(items)])))),
                            "trackers", "options")]
        /\ UNCHANGED <<entries, api_vars, url_vars, svc_vars>>

NextOptions ==
    \/ StartFlow(OptionsRun)
    \/ SubmitUser(OptionsRun)
    \/ ValidateReturns(OptionsRun)
    \/ ProjectsListed(OptionsRun)
    \/ PrioritiesListed(OptionsRun)
    \/ TrackersListed(OptionsRun)
    \/ SubmitOptions(OptionsRun)

InitOptions == FlowInit /\ ApiInit /\ UrlIdle /\ SvcIdle

SpecOptions == InitOptions /\ [][NextOptions]_vars

\* The positions of the priorities whose is_default flag is set.
Flagged(priorities) ==
    {i \in 1..Len(priorities) :
        /\ "is_default" \in DOMAIN priorities[i].v
        /\ priorities[i].v.is_default = [t |-> "bool", v |-> TRUE]}

Least(S) == CHOOSE i \in S : \A j \in S : i <= j

\* The entries persisted for a run.
EntriesOf(fl) == {i \in 1..Len(entries) : entries[i].unique_id = fl.unique_id}

-----------------------------------------------------------------------------
(* C13, C14 (SpecOptions) and C16 (Spec): the step-2 form and the entry.   *)

\* C13: the default of the priority field of the step-2 form is the id of the
\* first priority in list order whose is_default flag is set; with no flag
\* set, the id of the first priority; with an empty list, "2".
C13_DefaultPriority ==
    \A f \in FlowIds :
        LET fl == flow[f]
            ps == fl.priorities.v
        IN  FlowState(fl) = "CollectDefaults" =>
                fl.form.defaults.default_priority_id =
                    Some(IF Flagged(ps) # {} THEN Str(ps[Least(Flagged(ps))].v.id.v)
                         ELSE IF ps # <<>> THEN Str(ps[1].v.id.v)
                         ELSE "2")

\* C13 witness: the form is shown for a list whose first priority (3) has no
\* flag and whose second (2) has it, with 2 pre-selected.
C13_Witness ==
    \E f \in FlowIds :
        /\ FlowState(flow[f]) = "CollectDefaults"
        /\ flow[f].priorities.v = <<Priority(3, "Low"), PriorityFlagged(2, "Normal", TRUE)>>
        /\ flow[f].form.defaults.default_priority_id = Some("2")

\* C14: in the step-2 form the tracker field is pre-selected with the first
\* tracker of the fetched list and the project field has no pre-selection; an
\* entry is only created from a submission in which the operator chose the
\* project, and it holds that project, one of the fetched ones.
C14_ProjectChosenExplicitly ==
    \A f \in FlowIds :
        LET fl == flow[f] IN
        /\ FlowState(fl) = "CollectDefaults" =>
               /\ fl.form.defaults.default_project_id = None
               /\ fl.trackers.v # <<>> =>
                      fl.form.defaults.default_tracker_id = Some(Str(fl.trackers.v[1].v.id.v))
        /\ fl.pc = "created" =>
               /\ fl.explicit_project
               /\ fl.chosen.v.default_project_id \in project_options(fl)
               /\ \A i \in EntriesOf(fl) :
                      entries[i].data[CONF_DEFAULT_PROJECT_ID] =
                          JStr(fl.chosen.v.default_project_id)

\* C14 witness: an entry was created for a server with two projects and two
\* trackers (Feature first); the form pre-selected tracker 2 and no project.
C14_Witness ==
    \E f \in FlowIds :
        /\ flow[f].pc = "created"
        /\ Len(flow[f].projects.v) = 2
        /\ flow[f].trackers.v = <<Tracker(2, "Feature"), Tracker(1, "Bug")>>
        /\ flow[f].form.defaults.default_tracker_id = Some("2")
        /\ flow[f].form.defaults.default_project_id = None
        /\ flow[f].explicit_project
        /\ Len(entries) = 1

\* C16: a run that ended in create_entry has exactly one persisted entry; its
\* data has the five keys redmine_url, api_key, default_project_id,
\* default_tracker_id and default_priority_id; redmine_url and api_key are
\* those stored in step 1 (the ones the validated client was built with), the
\* project is the chosen one, and the tracker and the priority are the
\* integers whose decimal text was chosen.  No other run has an entry.
C16_EntryEmitted ==
    /\ \A f \in FlowIds :
           LET fl == flow[f] IN
           fl.pc = "created" =>
               /\ Cardinality(EntriesOf(fl)) = 1
               /\ \A i \in EntriesOf(fl) :
                      LET data == entries[i].data IN
                      /\ DOMAIN data = {CONF_REDMINE_URL, CONF_API_KEY,
                                        CONF_DEFAULT_PROJECT_ID, CONF_DEFAULT_TRACKER_ID,
                                        CONF_DEFAULT_PRIORITY_ID}
                      /\ data[CONF_REDMINE_URL] = fl.redmine_url
                      /\ data[CONF_API_KEY] = fl.api_key
                      /\ data[CONF_API_KEY].v = fl.client.v.api_key
                      /\ data[CONF_DEFAULT_PROJECT_ID] = JStr(fl.chosen.v.default_project_id)
                      /\ data[CONF_DEFAULT_TRACKER_ID].t = "int"
                      /\ Str(data[CONF_DEFAULT_TRACKER_ID].v) = fl.chosen.v.default_tracker_id
                      /\ data[CONF_DEFAULT_PRIORITY_ID].t = "int"
                      /\ Str(data[CONF_DEFAULT_PRIORITY_ID].v) = fl.chosen.v.default_priority_id
    /\ Len(entries) = Cardinality({f \in FlowIds : flow[f].pc = "created"})

\* C16 witness: both runs ended with an entry, for different URLs, one with
\* priority 2 and one with priority 3.
C16_Witness ==
    \E f, g \in FlowIds :
        /\ flow[f].pc = "created" /\ flow[g].pc = "created"
        /\ Len(entries) = 2
        /\ entries[1].data[CONF_DEFAULT_PRIORITY_ID] = JInt(3)
        /\ entries[2].data[CONF_DEFAULT_PRIORITY_ID] = JInt(2)
        /\ entries[1].data[CONF_DEFAULT_TRACKER_ID] = JInt(1)

-----------------------------------------------------------------------------
(* C22 (Spec): what a run brings into CollectDefaults. *)

\* The adapter operations a submission calls, in the order of the code.
SetupCalls == <<"validate_connection", "get_projects", "get_priorities", "get_trackers">>

\* C22: a run is in CollectDefaults (or past it) only after, for its latest
\* step-1 submission, validate_connection succeeded and then the three list
\* operations were called and answered; each of these calls is made only when
\* the one before it has been answered, so a run waits for one reply at a time;
\* the URL, the key and the client the run carries from then on, and the URL
\* and key of the entry it creates, are those of that latest, validated
\* submission, whatever earlier submissions of the run stored.
C22_ValidatedConnectionCarried ==
    \A f \in FlowIds :
        LET fl == flow[f]
            waiting == {i \in 1..Len(SetupCalls) :
                            fl.pc = (IF i = 1 THEN "validating" ELSE SetupCalls[i])}
        IN  /\ \A i \in waiting :
                   /\ fl.calls = SubSeq(SetupCalls, 1, i)
                   /\ i > 1 => fl.validated = "ok"
            /\ fl.pc \in {"options_form", "created", "aborted"} =>
                   /\ fl.validated = "ok" /\ fl.fetch_failed = ""
                   /\ fl.calls = SetupCalls
                   /\ fl.accepted # None
                   /\ fl.redmine_url = Some(fl.accepted.v.redmine_url)
                   /\ fl.api_key = Some(fl.accepted.v.api_key)
                   /\ fl.client = Some(RedmineClient(fl.accepted.v.redmine_url,
                                                     fl.accepted.v.api_key))
            /\ fl.pc = "created" =>
                   \A i \in EntriesOf(fl) :
                       /\ entries[i].data[CONF_REDMINE_URL].v = fl.accepted.v.redmine_url
                       /\ entries[i].data[CONF_API_KEY].v = fl.accepted.v.api_key

\* C22 witness: a run whose earlier submission had stored another URL and
\* another key (its lists could not be fetched) was validated again with
\* http://b and key2 and created its entry with these.
C22_Witness ==
    \E f \in FlowIds :
        /\ flow[f].pc = "created"
        /\ flow[f].replaced
        /\ flow[f].accepted = Some([redmine_url |-> HTTP \o <<"b">>, api_key |-> "key2"])
        /\ \E i \in EntriesOf(flow[f]) :
               /\ entries[i].data[CONF_REDMINE_URL] = Some(HTTP \o <<"b">>)
               /\ entries[i].data[CONF_API_KEY] = Some("key2")

-----------------------------------------------------------------------------
(* The service path (__init__.py): async_setup_entry loads an installation, *)
(* async_unload_entry unloads it, and the handler async_create_issue serves *)
(* redmine.create_issue.  The handler suspends once, at client.create_issue.*)

\* const.py
SERVICE_CREATE_ISSUE == "create_issue"
DEFAULT_PRIORITY_ID == 2

\* The installations of the host.
EntryIds == {"e1", "e2", "e3"}

\* entry.data of each: two entries as setup writes them, and one with the keys
\* of the tests' fixture, which holds no default priority.
ConfigEntryData(e) ==
    CASE e = "e1" ->
            (CONF_REDMINE_URL :> Some(HTTPS \o <<"a">>))
            @@ (CONF_API_KEY :> Some("key1"))
            @@ (CONF_DEFAULT_PROJECT_ID :> JStr("p1"))
            @@ (CONF_DEFAULT_TRACKER_ID :> JInt(1))
            @@ (CONF_DEFAULT_PRIORITY_ID :> JInt(3))
      [] e = "e2" ->
            (CONF_REDMINE_URL :> Some(HTTP \o <<"b">>))
            @@ (CONF_API_KEY :> Some("key2"))
            @@ (CONF_DEFAULT_PROJECT_ID :> JStr("p2"))
            @@ (CONF_DEFAULT_TRACKER_ID :> JInt(2))
            @@ (CONF_DEFAULT_PRIORITY_ID :> JInt(5))
      [] OTHER ->
            (CONF_REDMINE_URL :> Some(HTTPS \o <<"c">>))
            @@ (CONF_API_KEY :> Some("test_api_key_12345"))
            @@ (CONF_DEFAULT_PROJECT_ID :> JStr("test-project"))
            @@ (CONF_DEFAULT_TRACKER_ID :> JInt(1))

\* The ids of the loaded installations, in load order (the key order of the
\* dict hass.data[DOMAIN]).
LoadedIds(data) == [i \in 1..Len(data.items) |-> data.items[i].entry_id]
IsLoaded(data, e) == \E i \in 1..Len(data.items) : data.items[i].entry_id = e

\* dict.pop(entry_id): the other items keep their order.
RECURSIVE Without(_, _)
Without(items, e) ==
    IF items = <<>> THEN <<>>
    ELSE IF Head(items).entry_id = e THEN Without(Tail(items), e)
    ELSE <<Head(items)>> \o Without(Tail(items), e)

\* A setup that registers its handler whether or not one is registered.
async_setup_entry_registering_again(data, registry, e) ==
    [hass_data |->
        [present |-> TRUE,
         items |-> Append(data.items,
                     [entry_id |-> e,
                      client |-> RedmineClient(ConfigEntryData(e)[CONF_REDMINE_URL].v,
                                               ConfigEntryData(e)[CONF_API_KEY].v),
                      config |-> ConfigEntryData(e)])],
     services |-> Some([handler |-> e, service |-> SERVICE_CREATE_ISSUE])]

\* async_setup_entry(hass, entry): build the client, store client and config
\* under the entry id, register the handler unless the service exists.
async_setup_entry(data, registry, e) ==
    [hass_data |->
        [present |-> TRUE,
         items |-> Append(data.items,
                     [entry_id |-> e,
                      client |-> RedmineClient(ConfigEntryData(e)[CONF_REDMINE_URL].v,
                                               ConfigEntryData(e)[CONF_API_KEY].v),
                      config |-> ConfigEntryData(e)])],
     services |-> IF registry = None
                  THEN Some([handler |-> e, service |-> SERVICE_CREATE_ISSUE])
                  ELSE registry]

\* async_unload_entry(hass, entry): drop the entry's data; with none left,
\* remove the service and the DOMAIN key.
async_unload_entry(data, registry, e) ==
    LET left == Without(data.items, e)
    IN  IF left = <<>>
        THEN [hass_data |-> [present |-> FALSE, items |-> <<>>], services |-> None]
        ELSE [hass_data |-> [present |-> TRUE, items |-> left], services |-> registry]

\* call.data of a service invocation that passed SERVICE_CREATE_ISSUE_SCHEMA:
\* subject is there, each optional key is absent (None) or holds a string or
\* an integer that is not negative.
ServiceCalls ==
    [project_id : {None, JStr("other")},
     subject : {JStr("Alarm")},
     tracker_id : {None, JInt(0), JInt(7)},
     description : {None, JStr("text")},
     priority_id : {None, JInt(0), JInt(4)}]

\* call.data.get(key, default)
CallGet(value, default) == IF value = None THEN default ELSE value

\* What the tracker answers a service invocation's POST.
ServiceReplies ==
    {Response(201, Body("json", JDict([issue |-> JDict([id |-> JInt(123)])]))),
     Response(201, Body("json", JList(<<>>))),
     Response(401, Body("html", JNull)),
     Response(422, Body("json", JDict([errors |-> JList(<<"Project is invalid">>)]))),
     Response(500, Body("html", JNull)),
     SessionRaises("ClientConnectorError", 0, "cannot connect to host"),
     SessionRaises("TimeoutError", 0, "")}

\* A handler that takes the client of the first stored installation and the
\* config of the last.
ServiceCalledMixing(data, call) ==
    LET client == data.items[1].client
        config == data.items[Len(data.items)].config
        args == [project_id |-> CallGet(call.project_id, config[CONF_DEFAULT_PROJECT_ID]),
                 subject |-> call.subject,
                 tracker_id |-> CallGet(call.tracker_id, config[CONF_DEFAULT_TRACKER_ID]),
                 description |-> call.description,
                 priority_id |-> CallGet(call.priority_id, JInt(DEFAULT_PRIORITY_ID))]
    IN  [NoCall EXCEPT !.pc = "awaiting", !.data = call,
                       !.entry_id = data.items[1].entry_id, !.args = args,
                       !.requests = <<CreateRequest(client, args)>>]

\* async_create_issue(call) up to its await: take the first stored
\* installation, fill the unset fields, call client.create_issue.
ServiceCalled(data, call) ==
    LET entry_data == data.items[1]
        client == entry_data.client
        config == entry_data.config
        args == [project_id |-> CallGet(call.project_id, config[CONF_DEFAULT_PROJECT_ID]),
                 subject |-> call.subject,
                 tracker_id |-> CallGet(call.tracker_id, config[CONF_DEFAULT_TRACKER_ID]),
                 description |-> call.description,
                 priority_id |-> CallGet(call.priority_id, JInt(DEFAULT_PRIORITY_ID))]
    IN  [NoCall EXCEPT !.pc = "awaiting", !.data = call,
                       !.entry_id = entry_data.entry_id, !.args = args,
                       !.requests = <<CreateRequest(client, args)>>]

\* raise ServiceValidationError(translation_key=..., placeholders error=text)
ServiceValidationError(call, key, text) ==
    [call EXCEPT !.pc = "done", !.result = "ServiceValidationError",
                 !.key = key, !.text = text]

\* A handler that sends the request once more after a connection failure.
ServiceResumedRetrying(call, reply) ==
    LET outcome == create_issue(reply)
        seen == [call EXCEPT !.reply = reply, !.outcome = outcome]
    IN  IF IsInstance(outcome, "RedmineConnectionError") /\ Len(call.requests) < 2
        THEN [seen EXCEPT !.pc = "awaiting",
                          !.requests = Append(@, call.requests[1])]
        ELSE IF ~outcome.raised THEN [seen EXCEPT !.pc = "done", !.result = "ok"]
        ELSE ServiceValidationError(seen, "api_error", outcome.msg)

\* async_create_issue resumed by create_issue's outcome: read the issue id for
\* the log line, or turn RedmineAuthError and RedmineApiError into
\* ServiceValidationError; any other exception leaves the handler as it is.
ServiceResumed(call, reply) ==
    LET outcome == create_issue(reply)
        seen == [call EXCEPT !.reply = reply, !.outcome = outcome]
        escapes(exc) == [seen EXCEPT !.pc = "done", !.result = "raised", !.exc = exc]
    IN  IF ~outcome.raised
        THEN IF ~IsDict(outcome.value) THEN escapes("AttributeError")
             ELSE IF ~IsDict(DictGet(outcome.value, "issue", EmptyDict))
                  THEN escapes("AttributeError")
             ELSE [seen EXCEPT !.pc = "done", !.result = "ok"]
        ELSE IF IsInstance(outcome, "RedmineAuthError")
        THEN ServiceValidationError(seen, "auth_error", <<>>)
        ELSE IF IsInstance(outcome, "RedmineApiError")
        THEN ServiceValidationError(seen, "api_error", outcome.msg)
        ELSE escapes(outcome.exc)

-----------------------------------------------------------------------------
(* SpecService: installations loaded and unloaded, and one service          *)
(* invocation at a time, in any interleaving.                               *)

\* The host sets up an installation that is not loaded.
LoadEntry(e) ==
    /\ ~IsLoaded(hass_data, e)
    /\ LET done == async_setup_entry(hass_data, services, e)
       IN  /\ hass_data' = done.hass_data
           /\ services' = done.services
    /\ UNCHANGED <<svc, api_vars, url_vars, flow_vars>>

\* The host unloads a loaded installation.
UnloadEntry(e) ==
    /\ IsLoaded(hass_data, e)
    /\ LET done == async_unload_entry(hass_data, services, e)
       IN  /\ hass_data' = done.hass_data
           /\ services' = done.services
    /\ UNCHANGED <<svc, api_vars, url_vars, flow_vars>>

\* redmine.create_issue is called: the host runs the registered handler.
InvokeService ==
    \E call \in ServiceCalls :
        /\ services # None
        /\ svc.pc = "idle"
        /\ svc' = ServiceCalled(hass_data, call)
        /\ UNCHANGED <<hass_data, services, api_vars, url_vars, flow_vars>>

\* The reply to POST /issues.json arrives.
CreateIssueReturns ==
    \E reply \in ServiceReplies :
        /\ svc.pc = "awaiting"
        /\ svc' = ServiceResumed(svc, reply)
        /\ UNCHANGED <<hass_data, services, api_vars, url_vars, flow_vars>>

\* The caller has the result of the invocation.
ServiceCallEnds ==
    /\ svc.pc = "done"
    /\ svc' = NoCall
    /\ UNCHANGED <<hass_data, services, api_vars, url_vars, flow_vars>>

NextService ==
    \/ \E e \in EntryIds : LoadEntry(e)
    \/ \E e \in EntryIds : UnloadEntry(e)
    \/ InvokeService
    \/ CreateIssueReturns
    \/ ServiceCallEnds

InitService == SvcIdle /\ ApiInit /\ UrlIdle /\ FlowIdle

SpecService == InitService /\ [][NextService]_vars

\* The issue object of the request body an invocation sent.
SentIssue(call) == call.requests[1].json.v.issue.v

-----------------------------------------------------------------------------
(* C11, C15, C18, C19: the service path (SpecService). *)

\* C11 (as claimed): the issue a service invocation sends carries, for each
\* optional field, the caller's value when the caller supplied one, and
\* otherwise the default persisted in the installation's config:
\* default_project_id, default_tracker_id, and default_priority_id, with 2 for
\* the priority only when the config holds no default priority.
C11_DefaultsFromConfig ==
    svc.pc # "idle" =>
        LET config == ConfigEntryData(svc.entry_id)
            priority == IF CONF_DEFAULT_PRIORITY_ID \in DOMAIN config
                        THEN config[CONF_DEFAULT_PRIORITY_ID]
                        ELSE JInt(2)
        IN  /\ SentIssue(svc).project_id =
                   CallGet(svc.data.project_id, config[CONF_DEFAULT_PROJECT_ID])
            /\ SentIssue(svc).tracker_id =
                   CallGet(svc.data.tracker_id, config[CONF_DEFAULT_TRACKER_ID])
            /\ SentIssue(svc).priority_id = CallGet(svc.data.priority_id, priority)

\* C15 (as claimed): when create_issue failed, the invocation ends in the
\* ServiceValidationError, with the key auth_error for RedmineAuthError and
\* with the key api_error and the error's text otherwise; a timed-out request
\* is among these failures, and no invocation ends in another exception.
C15_FailuresReported ==
    svc.pc = "done" =>
        /\ svc.result \in {"ok", "ServiceValidationError"}
        /\ svc.outcome.raised =>
               /\ svc.result = "ServiceValidationError"
               /\ IF IsInstance(svc.outcome, "RedmineAuthError")
                  THEN svc.key = "auth_error"
                  ELSE svc.key = "api_error" /\ svc.text = svc.outcome.msg
        /\ IsTimeout(svc.reply) => svc.result = "ServiceValidationError"

\* C18: at every moment the service is registered exactly when an installation
\* is loaded, and hass.data holds the DOMAIN key exactly then; and as long as
\* the service stays registered its handler is the one registered first:
\* loading a further installation neither registers again nor replaces it.
C18_RegisteredWhileLoaded ==
    /\ [](/\ (services # None) <=> (hass_data.items # <<>>)
          /\ hass_data.present <=> (hass_data.items # <<>>))
    /\ [][(services # None /\ services' # None) => services' = services]_vars

\* C18 witness: e1 registered the service, e2 was loaded next and e1 unloaded;
\* the service is still registered, with the handler e1 registered.
C18_Witness ==
    /\ LoadedIds(hass_data) = <<"e2">>
    /\ services = Some([handler |-> "e1", service |-> SERVICE_CREATE_ISSUE])

\* SpecOperations: one host with a setup run and an installation. The steps
\* of the run and those of the installation and its service interleave
\* freely; the adapter is called by the run's submissions
\* (validate_connection, the lists) and by the service's handler
\* (create_issue).
OperationRuns == {"run1"}
OperationEntries == {"e1"}

InitOperations == FlowInit /\ ApiInit /\ UrlIdle /\ SvcIdle

NextOperations ==
    \/ \E f \in OperationRuns :
           \/ StartFlow(f)
           \/ SubmitUser(f)
           \/ ValidateReturns(f)
           \/ ProjectsReturn(f)
           \/ PrioritiesReturn(f)
           \/ TrackersReturn(f)
           \/ SubmitOptions(f)
    \/ \E e \in OperationEntries : LoadEntry(e)
    \/ \E e \in OperationEntries : UnloadEntry(e)
    \/ InvokeService
    \/ CreateIssueReturns
    \/ ServiceCallEnds

SpecOperations == InitOperations /\ [][NextOperations]_vars

\* The submission of a run being handled has met a failure.
SubmissionFailed(fl) == fl.validated \notin {"", "ok"} \/ fl.fetch_failed # ""

\* A run is waiting for an adapter operation.
AwaitsAdapter(fl) ==
    fl.pc \in {"validating", "get_projects", "get_priorities", "get_trackers"}

\* C19: no operation retries.
\* (a) A setup-step submission calls validate_connection once and each other
\*     adapter operation at most once, a further one only after every earlier
\*     one succeeded; while it waits, the operation it waits for is the last
\*     it called; after a failure it calls nothing and waits for nothing until
\*     the operator submits again.
\* (b) A service invocation calls create_issue once and issues exactly one
\*     request, its POST; once the reply is in, a success or a failure, the
\*     invocation has ended with no further request.
C19_NoRetry ==
    /\ [](\A f \in OperationRuns :
              LET calls == flow[f].calls
              IN  /\ \A i, j \in 1..Len(calls) : i # j => calls[i] # calls[j]
                  /\ calls # <<>> => calls[1] = "validate_connection"
                  /\ AwaitsAdapter(flow[f]) =>
                         /\ ~SubmissionFailed(flow[f])
                         /\ calls # <<>>
                         /\ calls[Len(calls)] =
                                (IF flow[f].pc = "validating"
                                 THEN "validate_connection" ELSE flow[f].pc))
    /\ [][\A f \in OperationRuns :
              flow'[f].calls # flow[f].calls =>
                  \/ /\ flow[f].pc = "user_form"
                     /\ flow'[f].pc = "validating"
                     /\ flow'[f].calls = <<"validate_connection">>
                  \/ /\ ~SubmissionFailed(flow[f])
                     /\ ~SubmissionFailed(flow'[f])
                     /\ Len(flow'[f].calls) = Len(flow[f].calls) + 1
                     /\ SubSeq(flow'[f].calls, 1, Len(flow[f].calls)) = flow[f].calls]_vars
    /\ [](/\ svc.pc = "idle" => svc.requests = <<>>
          /\ svc.pc # "idle" =>
                 /\ Len(svc.requests) = 1
                 /\ svc.requests[1].method = "POST"
                 /\ svc.requests[1].json = Payload(svc.args)
          /\ (svc.reply # NoReply) => svc.pc = "done")
    /\ [][svc'.requests # svc.requests =>
              svc.pc = "idle" \/ svc'.pc = "idle"]_vars

\* C19 witness: a submission of the run failed at validate_connection, its
\* one call, and the form is shown again; a service invocation failed at the
\* connection and ended with its one request issued.
C19_Witness ==
    /\ flow["run1"].pc = "user_form"
    /\ flow["run1"].validated = "RedmineConnectionError"
    /\ flow["run1"].calls = <<"validate_connection">>
    /\ svc.pc = "done"
    /\ IsInstance(svc.outcome, "RedmineConnectionError")
    /\ svc.result = "ServiceValidationError"
    /\ Len(svc.requests) = 1

\* C23: an invocation takes the installation that is first in load order among
\* those loaded at that moment, so never one that was unloaded before; and its
\* request goes to that installation's URL with that installation's key and
\* carries, for project and tracker left unset, that same installation's
\* defaults.
C23_EarliestLoadedInstallation ==
    /\ [][(svc.pc = "idle" /\ svc'.pc # "idle") =>
              /\ hass_data.items # <<>>
              /\ svc'.entry_id = LoadedIds(hass_data)[1]
              /\ IsLoaded(hass_data', svc'.entry_id)]_vars
    /\ [](svc.pc # "idle" =>
              LET config == ConfigEntryData(svc.entry_id)
                  request == svc.requests[1]
              IN  /\ request.url = config[CONF_REDMINE_URL].v \o ISSUES
                  /\ request.headers.key = config[CONF_API_KEY].v
                  /\ SentIssue(svc).project_id =
                         CallGet(svc.data.project_id, config[CONF_DEFAULT_PROJECT_ID])
                  /\ SentIssue(svc).tracker_id =
                         CallGet(svc.data.tracker_id, config[CONF_DEFAULT_TRACKER_ID]))

\* C23 witness: e1 was loaded first and registered the service, e2 was loaded,
\* e1 was unloaded, and an invocation that names neither project nor tracker
\* is on its way to e2's server with e2's key and defaults.
C23_Witness ==
    /\ services = Some([handler |-> "e1", service |-> SERVICE_CREATE_ISSUE])
    /\ LoadedIds(hass_data) = <<"e2">>
    /\ svc.pc = "awaiting"
    /\ svc.entry_id = "e2"
    /\ svc.data.project_id = None /\ svc.data.tracker_id = None
    /\ svc.requests[1].url = HTTP \o <<"b">> \o ISSUES
    /\ svc.requests[1].headers.key = "key2"
    /\ SentIssue(svc).project_id = JStr("p2")
    /\ SentIssue(svc).tracker_id = JInt(2)
=============================================================================
